---- MODULE Spec2Model ----
(***************************************************************************)
(* Model of internal/federation/test/load_test.py: the asyncio load-test   *)
(* harness FederationLoadTester.  One orchestrating coroutine              *)
(* (run_all_tests, or a scenario method called directly) fans a batch of   *)
(* send_request coroutines out through asyncio.gather and continues when   *)
(* the gather completes.  A step of the orchestrator runs from one await   *)
(* to the next; the clock `now` stands for time.time() and may tick        *)
(* between any two steps.                                                  *)
(***************************************************************************)
EXTENDS Integers, Sequences, FiniteSets, TLC

\* Bounds of the model.  SuiteN stands for the batch sizes run_all_tests uses
\* (100, 50, 150 and 10 in the source), CallN is the largest batch size a
\* scenario method is called with directly, MaxTime caps the clock.
SuiteN == 1
CallN == 3
MaxTime == 1

\* Batch sizes used by run_all_tests, scaled to the bound.
HEALTH_LOAD == SuiteN     \* range(100), line 178
INBOX_DEFAULT == SuiteN   \* test_concurrent_inbox(50), line 230
RATE_DEFAULT == SuiteN    \* test_rate_limiting(150), line 231
RETRY_COUNT == SuiteN     \* range(10), line 145

VARIABLES
    entry,           \* the coroutine the event loop was asked to run
    num,             \* num_requests / num_concurrent of the running scenario
    pc,              \* position of the orchestrating coroutine
    now,             \* time.time()
    tasks,           \* the send_request coroutines of the current await
    response_times,  \* self.response_times
    calls,           \* number of session.get / session.post calls made so far
    start,           \* test_concurrent_inbox: start
    status,          \* run_all_tests: status of the liveness check
    status1,         \* test_health_monitoring: status1
    health1,         \* test_health_monitoring: health1
    status2,         \* test_health_monitoring: status2
    health2,         \* test_health_monitoring: health2
    printed,         \* result sections printed so far, in order
    report,          \* content of the section printed last
    exc,             \* exception that left the orchestrating coroutine
    sys_exit         \* argument of sys.exit, once it is called (line 260)

vars == << entry, num, pc, now, tasks, response_times, calls, start, status,
           status1, health1, status2, health2, printed, report, exc,
           sys_exit >>

----------------------------------------------------------------------------
\* Response bodies.  A body is the text on the wire, kept by its JSON shape:
\* "text" is not JSON, "array" is a non-empty JSON array, "object" is a JSON
\* object with the keys in `keys`; "errmsg" is str(e) of a transport fault.

Body(kind, keys, st, tm, lat) ==
    [kind |-> kind, keys |-> keys, st |-> st, tm |-> tm, lat |-> lat]

TextBody == Body("text", {}, "", 0, 0)
ErrBody == Body("errmsg", {}, "", 0, 0)
ArrayBody == Body("array", {}, "", 0, 0)
Obj(keys, st, tm, lat) == Body("object", keys, st, tm, lat)
EmptyDict == Obj({}, "", 0, 0)

HealthBodies ==
    { TextBody, ArrayBody,
      Obj({}, "", 0, 0),
      Obj({"total_messages"}, "", 1, 0),
      Obj({"status", "average_latency_ms"}, "healthy", 0, 7),
      Obj({"status", "total_messages", "average_latency_ms"}, "healthy", 3, 7) }

\* What the transport does with one call: an HTTP response (status, text)
\* or an exception raised inside the try block.
Response(code, body) == [exc |-> FALSE, status |-> code, body |-> body]
Fault == [exc |-> TRUE, status |-> 0, body |-> ErrBody]

HealthWire == { Response(200, b) : b \in HealthBodies }
                  \cup { Response(503, TextBody), Fault }
InboxWire == { Response(s, TextBody) : s \in {200, 429, 500} } \cup { Fault }
SendWire == { Response(s, TextBody) : s \in {200, 201, 500} } \cup { Fault }

Wire(endpoint) ==
    CASE endpoint = "/federation/health" -> HealthWire
      [] endpoint = "/federation/inbox" -> InboxWire
      [] endpoint = "/federation/send" -> SendWire

----------------------------------------------------------------------------
\* send_request, lines 30-52.  `raised` tells whether an exception leaves
\* the coroutine; `ret` is the returned triple; `timed` tells whether the
\* elapsed time was appended to self.response_times.
send_request_NoExcept(w, elapsed) ==
    IF w.exc
    THEN [raised |-> TRUE, ret |-> << 0, w.body, elapsed >>, timed |-> FALSE]
    ELSE [raised |-> FALSE, ret |-> << w.status, w.body, elapsed >>, timed |-> TRUE]

send_request_TimesEveryOutcome(w, elapsed) ==
    IF w.exc
    THEN [raised |-> FALSE, ret |-> << 0, w.body, elapsed >>, timed |-> TRUE]
    ELSE [raised |-> FALSE, ret |-> << w.status, w.body, elapsed >>, timed |-> TRUE]

send_request(w, elapsed) ==
    IF w.exc
    THEN [raised |-> FALSE, ret |-> << 0, w.body, elapsed >>, timed |-> FALSE]
    ELSE [raised |-> FALSE, ret |-> << w.status, w.body, elapsed >>, timed |-> TRUE]

NoResult == << -1, TextBody, 0 >>

\* A send_request coroutine object: created (scheduled by gather), running
\* and suspended in the HTTP call (inflight), or returned (done).
NewTask(endpoint) ==
    [st |-> "scheduled", endpoint |-> endpoint, start_time |-> 0,
     wire |-> Fault, res |-> NoResult]

\* tasks = [send_request(...) for i in range(n)]
NewBatch(endpoint, n) == [i \in 1..n |-> NewTask(endpoint)]

\* await self.send_request(session, "/federation/health"): the coroutine runs
\* inline up to the HTTP call.
Awaited(endpoint, t) ==
    << [st |-> "inflight", endpoint |-> endpoint, start_time |-> t,
        wire |-> Fault, res |-> NoResult] >>

\* asyncio.gather(*tasks) returns once every awaitable has returned.
GatherDone_FirstCompleted(ts) ==
    Len(ts) = 0 \/ \E i \in 1..Len(ts) : ts[i].st = "done"

GatherDone(ts) == \A i \in 1..Len(ts) : ts[i].st = "done"

results(ts) == [i \in 1..Len(ts) |-> ts[i].res]

RECURSIVE SumLat(_)
SumLat(rs) == IF Len(rs) = 0 THEN 0 ELSE rs[1][3] + SumLat(Tail(rs))

RECURSIVE SumSeq(_)
SumSeq(s) == IF Len(s) = 0 THEN 0 ELSE s[1] + SumSeq(Tail(s))

Count(rs, ok) == Cardinality({ i \in 1..Len(rs) : rs[i][1] \in ok })

----------------------------------------------------------------------------
NoReport == [section |-> "none"]

\* value of a status variable that is not assigned yet
Unset == -1

Init ==
    /\ entry = "run_all_tests"
    /\ num = 0
    /\ pc = "run_all_tests"
    /\ now = 0
    /\ tasks = << >>
    /\ response_times = << >>
    /\ calls = 0
    /\ start = 0
    /\ status = Unset
    /\ status1 = Unset
    /\ health1 = EmptyDict
    /\ status2 = Unset
    /\ health2 = EmptyDict
    /\ printed = << >>
    /\ report = NoReport
    /\ exc = "none"
    /\ sys_exit = Unset

\* Time passes while the event loop waits: for network I/O of a request in
\* flight, or for the timer of asyncio.sleep.  Steps that do not suspend take
\* no time at the clock's resolution.
Waiting == pc = "sleep" \/ \E i \in 1..Len(tasks) : tasks[i].st = "inflight"

Tick ==
    /\ UNCHANGED sys_exit
    /\ now < MaxTime
    /\ Waiting
    /\ now' = now + 1
    /\ UNCHANGED << entry, num, pc, tasks, response_times, calls, start,
                    status, status1, health1, status2, health2, printed,
                    report, exc >>

\* The event loop runs the first step of the next task gather scheduled:
\* tasks start in creation order, whatever the state of the tasks started
\* before; the step ends suspended in the HTTP call (lines 32-44).
StartRequest_Serialized ==
    /\ UNCHANGED sys_exit
    /\ exc = "none"
    /\ \E i \in 1..Len(tasks) :
        /\ tasks[i].st = "scheduled"
        /\ \A j \in 1..(i - 1) : tasks[j].st = "done"
        /\ tasks' = [tasks EXCEPT ![i].st = "inflight", ![i].start_time = now]
    /\ calls' = calls + 1
    /\ UNCHANGED << entry, num, pc, now, response_times, start, status,
                    status1, health1, status2, health2, printed, report, exc >>

StartRequest ==
    /\ UNCHANGED sys_exit
    /\ exc = "none"
    /\ \E i \in 1..Len(tasks) :
        /\ tasks[i].st = "scheduled"
        /\ \A j \in 1..(i - 1) : tasks[j].st # "scheduled"
        /\ tasks' = [tasks EXCEPT ![i].st = "inflight", ![i].start_time = now]
    /\ calls' = calls + 1
    /\ UNCHANGED << entry, num, pc, now, response_times, start, status,
                    status1, health1, status2, health2, printed, report, exc >>

\* The HTTP call of request i ends, with a response or an exception, and
\* send_request returns (lines 46-52): the call is made once.
CompleteRequest_RetryOnFault ==
    /\ UNCHANGED sys_exit
    /\ exc = "none"
    /\ \E i \in 1..Len(tasks) :
        /\ tasks[i].st = "inflight"
        /\ \E w \in Wire(tasks[i].endpoint) :
            LET r == send_request(w, now - tasks[i].start_time) IN
            IF w.exc
            THEN /\ calls' = calls + 1
                 /\ UNCHANGED << tasks, response_times, exc, pc >>
            ELSE /\ tasks' = [tasks EXCEPT ![i].st = "done", ![i].start_time = 0,
                                           ![i].wire = w, ![i].res = r.ret]
                 /\ response_times' = Append(response_times, r.ret[3])
                 /\ UNCHANGED << calls, exc, pc >>
    /\ UNCHANGED << entry, num, now, start, status, status1, health1,
                    status2, health2, printed, report >>

\* The HTTP call of request i ends, with a response or an exception, and
\* send_request returns (lines 46-52).  An exception leaving send_request
\* would leave gather and the orchestrating coroutine too.
CompleteRequest ==
    /\ UNCHANGED sys_exit
    /\ exc = "none"
    /\ \E i \in 1..Len(tasks) :
        /\ tasks[i].st = "inflight"
        /\ \E w \in Wire(tasks[i].endpoint) :
            LET r == send_request(w, now - tasks[i].start_time) IN
            /\ tasks' = [tasks EXCEPT ![i].st = "done", ![i].start_time = 0,
                                      ![i].wire = w, ![i].res = r.ret]
            /\ response_times' = IF r.timed THEN Append(response_times, r.ret[3])
                                 ELSE response_times
            /\ exc' = IF r.raised THEN "ClientError" ELSE exc
            /\ pc' = IF r.raised THEN "crashed" ELSE pc
    /\ UNCHANGED << entry, num, now, calls, start, status, status1, health1,
                    status2, health2, printed, report >>

----------------------------------------------------------------------------
\* json.loads(body): raises JSONDecodeError on text that is not JSON.
json_loads_fails(body) == body.kind \notin {"object", "array"}

\* health = json.loads(body) if status == 200 else {}   (lines 173, 193)
HealthOf(st, body) == IF st = 200 THEN body ELSE EmptyDict

HealthRaises(st, body) == st = 200 /\ json_loads_fails(body)

\* truth value of a parsed health value: an empty dict is false
Truthy(h) == h.kind = "array" \/ (h.kind = "object" /\ h.keys # {})

\* dict.get(key, default)
GetNum(h, key, default) ==
    IF key \in h.keys
    THEN (IF key = "total_messages" THEN h.tm ELSE h.lat)
    ELSE default

GetStr(h, key, default) == IF key \in h.keys THEN h.st ELSE default

\* lines 195-205: the rendered Health Metrics section
HealthSection(h1, h2) ==
    IF Truthy(h1) /\ Truthy(h2)
    THEN [section |-> "health", state |-> "metrics",
          status |-> GetStr(h2, "status", "unknown"),
          total_increase |-> GetNum(h2, "total_messages", 0)
                               - GetNum(h1, "total_messages", 0),
          latency |-> GetNum(h2, "average_latency_ms", 0)]
    ELSE [section |-> "health", state |-> "failed",
          status |-> "", total_increase |-> 0, latency |-> 0]

\* .get on a value that is no dict raises AttributeError (lines 197-202)
HealthSectionRaises(h1, h2) ==
    Truthy(h1) /\ Truthy(h2) /\ (h1.kind # "object" \/ h2.kind # "object")

----------------------------------------------------------------------------
\* run_all_tests, lines 213-216: the liveness check is sent
LivenessCall ==
    /\ UNCHANGED sys_exit
    /\ pc = "run_all_tests"
    /\ tasks' = Awaited("/federation/health", now)
    /\ calls' = calls + 1
    /\ pc' = "liveness"
    /\ UNCHANGED << entry, num, now, response_times, start, status, status1,
                    health1, status2, health2, printed, report, exc >>

\* lines 216-226: a status other than 200 ends run_all_tests
LivenessPassed_Any(st) == st = 200 \/ st # 0

LivenessPassed(st) == st = 200

LivenessCheck ==
    /\ UNCHANGED sys_exit
    /\ pc = "liveness"
    /\ GatherDone(tasks)
    /\ status' = tasks[1].res[1]
    /\ IF LivenessPassed(tasks[1].res[1])
       THEN /\ pc' = "test_health_monitoring"
            /\ UNCHANGED printed
       ELSE /\ pc' = "aborted"
            /\ printed' = Append(printed, "not responding")
    /\ UNCHANGED << entry, num, now, tasks, response_times, calls, start,
                    status1, health1, status2, health2, report, exc >>

\* test_health_monitoring, line 172: the first snapshot is requested
Snapshot1Call ==
    /\ UNCHANGED sys_exit
    /\ pc = "test_health_monitoring"
    /\ tasks' = Awaited("/federation/health", now)
    /\ calls' = calls + 1
    /\ pc' = "snapshot1"
    /\ UNCHANGED << entry, num, now, response_times, start, status, status1,
                    health1, status2, health2, printed, report, exc >>

\* lines 172-188: the first snapshot is parsed, the load batch is gathered
Snapshot1Done ==
    /\ UNCHANGED sys_exit
    /\ pc = "snapshot1"
    /\ GatherDone(tasks)
    /\ status1' = tasks[1].res[1]
    /\ IF HealthRaises(tasks[1].res[1], tasks[1].res[2])
       THEN /\ exc' = "JSONDecodeError"
            /\ pc' = "crashed"
            /\ UNCHANGED << health1, tasks >>
       ELSE /\ health1' = HealthOf(tasks[1].res[1], tasks[1].res[2])
            /\ tasks' = NewBatch("/federation/inbox", HEALTH_LOAD)
            /\ pc' = "load"
            /\ UNCHANGED exc
    /\ UNCHANGED << entry, num, now, response_times, calls, start, status,
                    status2, health2, printed, report >>

\* lines 188-191: the load batch has returned; await asyncio.sleep(1)
LoadDone_NoBarrier ==
    /\ UNCHANGED sys_exit
    /\ pc = "load"
    /\ pc' = "sleep"
    /\ UNCHANGED << entry, num, now, tasks, response_times, calls, start,
                    status, status1, health1, status2, health2, printed,
                    report, exc >>

LoadDone ==
    /\ UNCHANGED sys_exit
    /\ pc = "load"
    /\ GatherDone(tasks)
    /\ pc' = "sleep"
    /\ UNCHANGED << entry, num, now, tasks, response_times, calls, start,
                    status, status1, health1, status2, health2, printed,
                    report, exc >>

\* line 192: the sleep is over, the second snapshot is requested
Snapshot2Call ==
    /\ UNCHANGED sys_exit
    /\ pc = "sleep"
    /\ tasks' = Awaited("/federation/health", now)
    /\ calls' = calls + 1
    /\ pc' = "snapshot2"
    /\ UNCHANGED << entry, num, now, response_times, start, status, status1,
                    health1, status2, health2, printed, report, exc >>

\* lines 192-205: the second snapshot is parsed and the section rendered
Snapshot2Done ==
    /\ UNCHANGED sys_exit
    /\ pc = "snapshot2"
    /\ GatherDone(tasks)
    /\ status2' = tasks[1].res[1]
    /\ IF HealthRaises(tasks[1].res[1], tasks[1].res[2])
       THEN /\ exc' = "JSONDecodeError"
            /\ pc' = "crashed"
            /\ UNCHANGED << health2, printed, report, num >>
       ELSE /\ health2' = HealthOf(tasks[1].res[1], tasks[1].res[2])
            /\ IF HealthSectionRaises(health1, health2')
               THEN /\ exc' = "AttributeError"
                    /\ pc' = "crashed"
                    /\ UNCHANGED << printed, report, num >>
               ELSE /\ report' = HealthSection(health1, health2')
                    /\ printed' = Append(printed, "health")
                    /\ pc' = "test_concurrent_inbox"
                    /\ num' = INBOX_DEFAULT
                    /\ UNCHANGED exc
    /\ UNCHANGED << entry, now, tasks, response_times, calls, start, status,
                    status1, health1 >>

----------------------------------------------------------------------------
\* test_concurrent_inbox, lines 103-120: start is read, the batch is gathered.
\* The locals of test_health_monitoring, which has returned, are gone.
InboxDispatch ==
    /\ UNCHANGED sys_exit
    /\ pc = "test_concurrent_inbox"
    /\ start' = now
    /\ tasks' = NewBatch("/federation/inbox", num)
    /\ pc' = "inbox"
    /\ status1' = Unset
    /\ health1' = EmptyDict
    /\ status2' = Unset
    /\ health2' = EmptyDict
    /\ UNCHANGED << entry, num, now, response_times, calls, status, printed,
                    report, exc >>

\* lines 122-133: the Results section of the concurrent inbox test; the
\* average and the throughput are kept as numerator and denominator
Successes(rs) == SelectSeq(rs, LAMBDA r : r[1] = 200)

InboxSection_AvgOverSuccesses(rs, n, elapsed) ==
    [section |-> "inbox", total |-> n,
     successful |-> Count(rs, {200}),
     failed |-> n - Count(rs, {200}),
     elapsed |-> elapsed,
     avg_sum |-> SumLat(Successes(rs)), avg_len |-> Len(Successes(rs)),
     throughput_num |-> n, throughput_den |-> elapsed]

InboxSection_ThroughputOverLatencySum(rs, n, elapsed) ==
    [section |-> "inbox", total |-> n,
     successful |-> Count(rs, {200}),
     failed |-> n - Count(rs, {200}),
     elapsed |-> elapsed,
     avg_sum |-> SumLat(rs), avg_len |-> Len(rs),
     throughput_num |-> n, throughput_den |-> SumLat(rs)]

InboxSection(rs, n, elapsed) ==
    [section |-> "inbox", total |-> n,
     successful |-> Count(rs, {200}),
     failed |-> n - Count(rs, {200}),
     elapsed |-> elapsed,
     avg_sum |-> SumLat(rs), avg_len |-> Len(rs),
     throughput_num |-> n, throughput_den |-> elapsed]

\* line 125 divides by len(results); the local start ends with the method
InboxDone_AvgOverSuccesses ==
    /\ UNCHANGED sys_exit
    /\ pc = "inbox"
    /\ GatherDone(tasks)
    /\ IF Count(results(tasks), {200}) = 0
       THEN /\ exc' = "ZeroDivisionError"
            /\ pc' = "crashed"
            /\ UNCHANGED << printed, report, num >>
       ELSE /\ report' = InboxSection(results(tasks), num, now - start)
            /\ printed' = Append(printed, "inbox")
            /\ pc' = IF entry = "run_all_tests" THEN "test_rate_limiting"
                     ELSE "returned"
            /\ num' = IF entry = "run_all_tests" THEN RATE_DEFAULT ELSE num
            /\ UNCHANGED exc
    /\ start' = 0
    /\ UNCHANGED << entry, now, tasks, response_times, calls, status,
                    status1, health1, status2, health2 >>

InboxDone ==
    /\ UNCHANGED sys_exit
    /\ pc = "inbox"
    /\ GatherDone(tasks)
    /\ IF Len(results(tasks)) = 0
       THEN /\ exc' = "ZeroDivisionError"
            /\ pc' = "crashed"
            /\ UNCHANGED << printed, report, num >>
       ELSE /\ report' = InboxSection(results(tasks), num, now - start)
            /\ printed' = Append(printed, "inbox")
            /\ pc' = IF entry = "run_all_tests" THEN "test_rate_limiting"
                     ELSE "returned"
            /\ num' = IF entry = "run_all_tests" THEN RATE_DEFAULT ELSE num
            /\ UNCHANGED exc
    /\ start' = 0
    /\ UNCHANGED << entry, now, tasks, response_times, calls, status,
                    status1, health1, status2, health2 >>

\* test_rate_limiting, lines 62-76: the batch is gathered
RateDispatch ==
    /\ UNCHANGED sys_exit
    /\ pc = "test_rate_limiting"
    /\ tasks' = NewBatch("/federation/inbox", num)
    /\ pc' = "rate"
    /\ UNCHANGED << entry, num, now, response_times, calls, start, status,
                    status1, health1, status2, health2, printed, report, exc >>

\* lines 62, 78-79: status_codes[status] += 1 for every result; the
\* defaultdict has a key for every status seen
status_codes_DropFailures(rs) ==
    [s \in { rs[i][1] : i \in 1..Len(rs) } \ {0} |-> Count(rs, {s})]

status_codes(rs) == [s \in { rs[i][1] : i \in 1..Len(rs) } |-> Count(rs, {s})]

\* defaultdict(int) lookup: a missing key reads as 0
Lookup(h, k) == IF k \in DOMAIN h THEN h[k] ELSE 0

RECURSIVE SumHist(_, _)
SumHist(h, keys) ==
    IF keys = {} THEN 0
    ELSE LET k == CHOOSE x \in keys : TRUE IN h[k] + SumHist(h, keys \ {k})

\* lines 81-93: the Results section of the rate limiting test
RateSection_WarnOnSuccess(rs) ==
    [section |-> "rate", outcomes |-> Len(rs), histogram |-> status_codes(rs),
     warning |-> Lookup(status_codes(rs), 200) > 0]

RateSection(rs) ==
    [section |-> "rate", outcomes |-> Len(rs), histogram |-> status_codes(rs),
     warning |-> ~(Lookup(status_codes(rs), 429) > 0)]

RateDone_NoAwait ==
    /\ UNCHANGED sys_exit
    /\ pc = "rate"
    /\ report' = RateSection(results(tasks))
    /\ printed' = Append(printed, "rate")
    /\ pc' = IF entry = "run_all_tests" THEN "test_retry_queue_simulation"
             ELSE "returned"
    /\ UNCHANGED << entry, num, now, tasks, response_times, calls, start,
                    status, status1, health1, status2, health2, exc >>

RateDone ==
    /\ UNCHANGED sys_exit
    /\ pc = "rate"
    /\ GatherDone(tasks)
    /\ report' = RateSection(results(tasks))
    /\ printed' = Append(printed, "rate")
    /\ pc' = IF entry = "run_all_tests" THEN "test_retry_queue_simulation"
             ELSE "returned"
    /\ UNCHANGED << entry, num, now, tasks, response_times, calls, start,
                    status, status1, health1, status2, health2, exc >>

\* test_retry_queue_simulation, lines 143-155
RetryDispatch ==
    /\ UNCHANGED sys_exit
    /\ pc = "test_retry_queue_simulation"
    /\ tasks' = NewBatch("/federation/send", RETRY_COUNT)
    /\ pc' = "retry"
    /\ UNCHANGED << entry, num, now, response_times, calls, start, status,
                    status1, health1, status2, health2, printed, report, exc >>

\* lines 157-162
RetrySection(rs) ==
    [section |-> "retry", queued |-> Count(rs, {200, 201}), of |-> Len(rs)]

RetryDone ==
    /\ UNCHANGED sys_exit
    /\ pc = "retry"
    /\ GatherDone(tasks)
    /\ report' = RetrySection(results(tasks))
    /\ printed' = Append(printed, "retry")
    /\ pc' = "summary"
    /\ UNCHANGED << entry, num, now, tasks, response_times, calls, start,
                    status, status1, health1, status2, health2, exc >>

\* run_all_tests, lines 239-249: the Test Summary
RECURSIVE MinSeq(_)
MinSeq(s) ==
    IF Len(s) = 1 THEN s[1]
    ELSE LET m == MinSeq(Tail(s)) IN IF s[1] < m THEN s[1] ELSE m

RECURSIVE MaxSeq(_)
MaxSeq(s) ==
    IF Len(s) = 1 THEN s[1]
    ELSE LET m == MaxSeq(Tail(s)) IN IF s[1] > m THEN s[1] ELSE m

SummarySection(rts) ==
    IF Len(rts) > 0
    THEN [section |-> "summary", stats |-> TRUE, total |-> Len(rts),
          sum_rt |-> SumSeq(rts), min_rt |-> MinSeq(rts), max_rt |-> MaxSeq(rts)]
    ELSE [section |-> "summary", stats |-> FALSE, total |-> 0,
          sum_rt |-> 0, min_rt |-> 0, max_rt |-> 0]

Summary ==
    /\ UNCHANGED sys_exit
    /\ pc = "summary"
    /\ report' = SummarySection(response_times)
    /\ printed' = Append(printed, "summary")
    /\ pc' = "done"
    /\ UNCHANGED << entry, num, now, tasks, response_times, calls, start,
                    status, status1, health1, status2, health2, exc >>

----------------------------------------------------------------------------
Next ==
    \/ Tick
    \/ StartRequest
    \/ CompleteRequest
    \/ LivenessCall
    \/ LivenessCheck
    \/ Snapshot1Call
    \/ Snapshot1Done
    \/ LoadDone
    \/ Snapshot2Call
    \/ Snapshot2Done
    \/ InboxDispatch
    \/ InboxDone
    \/ RateDispatch
    \/ RateDone
    \/ RetryDispatch
    \/ RetryDone
    \/ Summary

Spec == Init /\ [][Next]_vars

\* main and the __main__ block, lines 251-260: Ctrl-C while asyncio.run is
\* running.  asyncio.run cancels the coroutines that have not returned and
\* raises KeyboardInterrupt, which no `except Exception` of the harness
\* catches; the handler prints the message and calls sys.exit(1).
Halted == pc \in {"done", "aborted", "crashed", "returned", "interrupted"}

Cancelled(ts) ==
    [i \in 1..Len(ts) |->
        IF ts[i].st = "done" THEN ts[i] ELSE [ts[i] EXCEPT !.st = "cancelled"]]

Interrupt_TasksLeftRunning ==
    /\ ~Halted
    /\ pc' = "interrupted"
    /\ printed' = Append(printed, "interrupted")
    /\ sys_exit' = 1
    /\ UNCHANGED << entry, num, now, tasks, response_times, calls, start,
                    status, status1, health1, status2, health2, report, exc >>

Interrupt ==
    /\ ~Halted
    /\ pc' = "interrupted"
    /\ exc' = "KeyboardInterrupt"
    /\ tasks' = Cancelled(tasks)
    /\ printed' = Append(printed, "interrupted")
    /\ sys_exit' = 1
    /\ UNCHANGED << entry, num, now, response_times, calls, start, status,
                    status1, health1, status2, health2, report >>

NextInterrupt ==
    \/ Next
    \/ Interrupt

SpecInterrupt == Init /\ [][NextInterrupt]_vars

\* The event loop keeps running what is ready, and every HTTP call ends, with
\* a response or an exception (the client session's timeout bounds it).
Advance ==
    \/ StartRequest
    \/ CompleteRequest
    \/ LivenessCall
    \/ LivenessCheck
    \/ Snapshot1Call
    \/ Snapshot1Done
    \/ LoadDone
    \/ Snapshot2Call
    \/ Snapshot2Done
    \/ InboxDispatch
    \/ InboxDone
    \/ RateDispatch
    \/ RateDone
    \/ RetryDispatch
    \/ RetryDone
    \/ Summary

LiveSpec == Init /\ [][Next]_vars /\ WF_vars(Advance)

\* A scenario method called on a fresh FederationLoadTester with any batch
\* size, at any reading of the clock: test_concurrent_inbox(n) or
\* test_rate_limiting(n).
InitCall ==
    /\ entry \in {"test_concurrent_inbox", "test_rate_limiting"}
    /\ num \in 0..CallN
    /\ pc = entry
    /\ now \in 0..MaxTime
    /\ tasks = << >>
    /\ response_times = << >>
    /\ calls = 0
    /\ start = 0
    /\ status = Unset
    /\ status1 = Unset
    /\ health1 = EmptyDict
    /\ status2 = Unset
    /\ health2 = EmptyDict
    /\ printed = << >>
    /\ report = NoReport
    /\ exc = "none"
    /\ sys_exit = Unset

NextCall ==
    \/ Tick
    \/ StartRequest
    \/ CompleteRequest
    \/ InboxDispatch
    \/ InboxDone
    \/ RateDispatch
    \/ RateDone

SpecCall == InitCall /\ [][NextCall]_vars

----------------------------------------------------------------------------
\* Properties

Faults(ts) == Cardinality({ i \in 1..Len(ts) : ts[i].st = "done" /\ ts[i].wire.exc })

\* C1: a test_rate_limiting batch of size N yields exactly N outcomes, and
\* the values of its status-code histogram sum to N, the transport failures
\* counted under key 0.
C1_RateBatchHistogram ==
    report.section = "rate" =>
        /\ report.outcomes = num
        /\ SumHist(report.histogram, DOMAIN report.histogram) = num
        /\ Lookup(report.histogram, 0) = Faults(tasks)

C1_Witness ==
    /\ report.section = "rate"
    /\ num >= 2
    /\ Lookup(report.histogram, 0) >= 1
    /\ Lookup(report.histogram, 200) >= 1

\* C2: send_request always returns an outcome and no transport fault leaves
\* it: a fault gives status 0 with the error message as body, a response
\* gives its status and text.
C2_SendRequestReturnsOutcome ==
    /\ exc # "ClientError"
    /\ \A i \in 1..Len(tasks) :
        tasks[i].st = "done" =>
            IF tasks[i].wire.exc
            THEN tasks[i].res[1] = 0 /\ tasks[i].res[2] = ErrBody
            ELSE /\ tasks[i].res[1] = tasks[i].wire.status
                 /\ tasks[i].res[2] = tasks[i].wire.body

C2_Witness ==
    /\ pc = "summary"
    /\ \E i \in 1..Len(tasks) : tasks[i].wire.exc /\ tasks[i].res[1] = 0

\* C3: a liveness check with any status other than 200 ends run_all_tests
\* at once: the liveness request is the only HTTP call of the run and no
\* scenario is dispatched.
C3_LivenessFailFast ==
    (status # Unset /\ status # 200) =>
        /\ pc = "aborted"
        /\ calls = 1
        /\ Len(tasks) = 1
        /\ printed = << "not responding" >>

C3_Witness == pc = "aborted" /\ status = 503 /\ calls = 1

\* C4: a scenario's results are aggregated and rendered only after every
\* request of its batch has completed.
C4_BatchBarrier ==
    report.section # "none" =>
        /\ Len(tasks) = num
        /\ \A i \in 1..Len(tasks) : tasks[i].st = "done"

C4_Witness ==
    /\ report.section = "inbox"
    /\ num >= 2
    /\ \E i \in 1..Len(tasks) : tasks[i].wire.exc

C6_SummaryCoversEveryRequest ==
    report.section = "summary" => report.total = calls

\* C7: once the liveness check has passed, a malformed health response in
\* the health-monitoring probe is never fatal.
C7_MalformedHealthNeverFatal ==
    status = 200 => ~(pc = "crashed" /\ exc = "JSONDecodeError")

\* C8: for a batch of size 0 no division-by-zero fault occurs.
C8_EmptyBatchNoFault ==
    num = 0 => exc # "ZeroDivisionError"

\* C9: for two snapshots both retrieved with status 200 the probe reports
\* message_delta = snapshot2.total_messages - snapshot1.total_messages, a
\* missing field read as 0, a snapshot with no fields at all included.
C9_DeltaForRetrievedSnapshots ==
    (/\ report.section = "health"
     /\ status1 = 200 /\ health1.kind = "object"
     /\ status2 = 200 /\ health2.kind = "object") =>
        /\ report.state = "metrics"
        /\ report.total_increase = GetNum(health2, "total_messages", 0)
                                     - GetNum(health1, "total_messages", 0)

\* C10: if either snapshot was not retrieved, the probe reports the
\* failed state and no numeric delta.
C10_FailedStateWhenNotRetrieved ==
    (status2 # Unset /\ (status1 # 200 \/ status2 # 200)) =>
        /\ \E k \in 1..Len(printed) : printed[k] = "health"
        /\ report.section = "health" => report.state = "failed"

\* C11: the rate-limit probe warns that rate limiting may not be enforced
\* exactly when no outcome of its batch has status 429; a batch answered only
\* with 429 has N under 429, nothing under 200 and no warning, a batch
\* answered only with 200 has the warning.
AllStatus(ts, code) == \A i \in 1..Len(ts) : ts[i].res[1] = code

C11_WarningIffNo429 ==
    report.section = "rate" =>
        /\ report.warning <=> (\A i \in 1..Len(tasks) : tasks[i].res[1] # 429)
        /\ (num >= 1 /\ AllStatus(tasks, 429)) =>
              /\ Lookup(report.histogram, 429) = num
              /\ Lookup(report.histogram, 200) = 0
              /\ ~report.warning
        /\ AllStatus(tasks, 200) => report.warning

C11_Witness ==
    /\ report.section = "rate"
    /\ num >= 2
    /\ AllStatus(tasks, 429)
    /\ ~report.warning

\* C12: no request writes to state shared with the other requests or with
\* the orchestrator while another request of its batch is in flight: the
\* shared list response_times changes only once no request is in flight.
C12_NoSharedWritesInFlight ==
    [][response_times' # response_times =>
          ~(\E i \in 1..Len(tasks') : tasks'[i].st = "inflight")]_vars

\* C13: once the liveness check has passed, whatever the outcomes of the
\* scenario requests, the suite prints the result section of each of the four
\* scenarios and reaches the summary and the end of run_all_tests, unless a
\* health response with status 200 was malformed (not a JSON object).
AllSections == << "health", "inbox", "rate", "retry", "summary" >>

MalformedHealthSeen ==
    /\ pc = "crashed"
    /\ exc \in {"JSONDecodeError", "AttributeError"}
    /\ tasks[1].res[2].kind # "object" \/ health1.kind # "object"

C13_EveryScenarioRenders ==
    (status = 200) ~> ((pc = "done" /\ printed = AllSections) \/ MalformedHealthSeen)

C13_Witness ==
    /\ pc = "done"
    /\ printed = AllSections
    /\ Len(response_times) = 1
    /\ \A i \in 1..Len(tasks) : tasks[i].res[1] = 0

\* C14: no retries: every request of a batch and every health fetch makes
\* exactly one HTTP call and yields exactly one outcome, whether it succeeds,
\* returns an error status or fails at transport level.  The calls made so far
\* are the requests of the awaits already over plus the requests started in
\* the current one.
Started(ts) == Cardinality({ i \in 1..Len(ts) : ts[i].st # "scheduled" })

IssuedBefore ==
    CASE pc \in {"run_all_tests", "liveness", "aborted", "test_health_monitoring"} -> 0
      [] pc = "snapshot1" -> 1
      [] pc \in {"load", "sleep"} -> 2
      [] pc \in {"snapshot2", "test_concurrent_inbox"} -> 2 + HEALTH_LOAD
      [] pc \in {"inbox", "test_rate_limiting"} -> 3 + HEALTH_LOAD
      [] pc \in {"rate", "test_retry_queue_simulation"} ->
            3 + HEALTH_LOAD + INBOX_DEFAULT
      [] pc \in {"retry", "summary", "done"} ->
            3 + HEALTH_LOAD + INBOX_DEFAULT + RATE_DEFAULT
      [] pc = "crashed" -> IF status2 = Unset THEN 1 ELSE 2 + HEALTH_LOAD

C14_OneCallPerRequest ==
    /\ calls = IssuedBefore + Started(tasks)
    /\ \A i \in 1..Len(tasks) : tasks[i].st = "done" <=> tasks[i].res # NoResult

C14_Witness ==
    /\ pc = "done"
    /\ calls = 3 + HEALTH_LOAD + INBOX_DEFAULT + RATE_DEFAULT + RETRY_COUNT
    /\ \E i \in 1..Len(tasks) : tasks[i].wire.exc
    /\ Len(response_times) < calls

\* C15: an interrupt at any point of the run stops the suite: afterwards no
\* request is dispatched and no further scenario starts, and the interrupt is
\* surfaced by the message and the exit status 1.
C15_InterruptStopsSuite ==
    pc = "interrupted" =>
        /\ sys_exit = 1
        /\ printed[Len(printed)] = "interrupted"
        /\ \A i \in 1..Len(tasks) : tasks[i].st \in {"done", "cancelled"}
        /\ ~ENABLED Advance

C15_Witness ==
    /\ pc = "interrupted"
    /\ sys_exit = 1
    /\ printed = << "health", "interrupted" >>
    /\ \E i \in 1..Len(tasks) : tasks[i].st = "cancelled"

\* C16: in the health-monitoring probe the first snapshot request is over
\* before any load request is dispatched, the second snapshot is requested
\* only after every load request has completed and the sleep was entered, and
\* a reported delta is the second snapshot's total minus the first's.
C16_LoadDispatched ==
    (pc # "load" /\ pc' = "load") =>
        /\ pc = "snapshot1"
        /\ Len(tasks) = 1 /\ tasks[1].st = "done"
        /\ tasks[1].endpoint = "/federation/health"
        /\ status1' = tasks[1].res[1]
        /\ Len(tasks') = HEALTH_LOAD
        /\ \A i \in 1..Len(tasks') : tasks'[i].st = "scheduled"

C16_Paused ==
    (pc # "sleep" /\ pc' = "sleep") =>
        /\ pc = "load"
        /\ \A i \in 1..Len(tasks) : tasks[i].st = "done"

C16_Snapshot2Requested ==
    (pc # "snapshot2" /\ pc' = "snapshot2") =>
        /\ pc = "sleep"
        /\ Len(tasks) = HEALTH_LOAD
        /\ \A i \in 1..Len(tasks) :
              tasks[i].st = "done" /\ tasks[i].endpoint = "/federation/inbox"

C16_DeltaInOrder ==
    (status2 # Unset /\ report.section = "health" /\ report.state = "metrics") =>
        report.total_increase =
            GetNum(HealthOf(tasks[1].res[1], tasks[1].res[2]), "total_messages", 0)
              - GetNum(health1, "total_messages", 0)

C16_SnapshotsAroundLoad ==
    /\ [][C16_LoadDispatched /\ C16_Paused /\ C16_Snapshot2Requested]_vars
    /\ []C16_DeltaInOrder

C16_Witness ==
    /\ report.section = "health"
    /\ report.state = "metrics"
    /\ report.total_increase = 2
    /\ status1 = 200 /\ status2 = 200

\* C17: in the concurrent-inbox probe with N >= 1 the success count is the
\* number of outcomes with status exactly 200, the failure count is N minus
\* it, and the average latency is the sum of the latencies of all N outcomes
\* over N, the outcomes with status 0 or an error status included.
RECURSIVE LatencyOf(_, _)
LatencyOf(ts, k) == IF k = 0 THEN 0 ELSE ts[k].res[3] + LatencyOf(ts, k - 1)

C17_InboxCounts ==
    (report.section = "inbox" /\ num >= 1) =>
        /\ report.successful =
              Cardinality({ i \in 1..Len(tasks) :
                              ~tasks[i].wire.exc /\ tasks[i].wire.status = 200 })
        /\ report.failed = num - report.successful
        /\ report.successful + report.failed = num
        /\ report.avg_len = num
        /\ report.avg_sum = LatencyOf(tasks, num)

C17_Witness ==
    /\ report.section = "inbox"
    /\ num = 3
    /\ report.successful = 1
    /\ \E i \in 1..Len(tasks) : tasks[i].wire.exc /\ tasks[i].res[3] = 1
    /\ \E i \in 1..Len(tasks) : tasks[i].res[1] = 500
    /\ report.avg_sum >= 1

\* C18: the throughput of the concurrent-inbox probe is the batch size over
\* the wall-clock span of the batch; the span is the clock at the end of the
\* batch minus start, start is not later than the start of any request and
\* the span is not shorter than the latency of any request.
C18_SpanStart ==
    pc = "inbox" =>
        \A i \in 1..Len(tasks) :
            tasks[i].st = "inflight" =>
                start <= tasks[i].start_time /\ tasks[i].start_time <= now

C18_SpanRendered ==
    (pc = "inbox" /\ report' # report) =>
        /\ report'.section = "inbox"
        /\ report'.throughput_num = num
        /\ report'.throughput_den = now - start
        /\ \A i \in 1..Len(tasks) :
              tasks[i].st = "done" /\ report'.throughput_den >= tasks[i].res[3]

C18_ThroughputOverSpan ==
    /\ []C18_SpanStart
    /\ [][C18_SpanRendered]_vars

C18_Witness ==
    /\ report.section = "inbox"
    /\ report.throughput_num = 2
    /\ report.throughput_den = 1
    /\ \A i \in 1..Len(tasks) : tasks[i].res[3] = 1

\* C19: len(response_times) is the number of requests completed so far with
\* an HTTP response of any status, requests that ended in transport failure
\* excluded; the list only grows and never exceeds the number of requests
\* issued, which is at most 1 + (2 + load) + inbox + rate + retry in a run.
MaxCalls == 1 + (2 + HEALTH_LOAD) + INBOX_DEFAULT + RATE_DEFAULT + RETRY_COUNT

CompletedWithResponse ==
    { i \in 1..Len(tasks) :
        /\ i <= Len(tasks')
        /\ tasks[i].st = "inflight"
        /\ tasks'[i].st = "done"
        /\ ~tasks'[i].wire.exc }

C19_OneEntryPerResponse ==
    /\ Len(response_times') =
           Len(response_times) + Cardinality(CompletedWithResponse)
    /\ SubSeq(response_times', 1, Len(response_times)) = response_times

C19_ResponseTimesInvariant ==
    /\ [][C19_OneEntryPerResponse]_vars
    /\ [](Len(response_times) <= calls /\ calls <= MaxCalls)

C19_Witness ==
    /\ pc = "done"
    /\ calls = MaxCalls
    /\ Len(response_times) >= 2
    /\ Len(response_times) < calls

\* C20: after a passed liveness check the scenarios run one after another in
\* the order health monitoring, concurrent inbox, rate limit, retry queue,
\* each with its batch size; the run moves on only when every request of the
\* current batch has completed, so the requests in flight always belong to
\* one scenario.
ScenarioOf(p) ==
    CASE p \in {"test_health_monitoring", "snapshot1", "load", "sleep",
                "snapshot2"} -> 1
      [] p \in {"test_concurrent_inbox", "inbox"} -> 2
      [] p \in {"test_rate_limiting", "rate"} -> 3
      [] p \in {"test_retry_queue_simulation", "retry"} -> 4
      [] p \in {"summary", "done"} -> 5
      [] OTHER -> 0

C20_OneScenarioInFlight ==
    /\ pc = "load" => Len(tasks) = HEALTH_LOAD
    /\ pc = "inbox" => Len(tasks) = INBOX_DEFAULT
    /\ pc = "rate" => Len(tasks) = RATE_DEFAULT
    /\ pc = "retry" => Len(tasks) = RETRY_COUNT
    /\ ScenarioOf(pc) >= 1 =>
          /\ status = 200
          /\ printed = SubSeq(AllSections, 1, Len(printed))
          /\ Len(printed) \in {ScenarioOf(pc) - 1, ScenarioOf(pc)}
    /\ \A i \in 1..Len(tasks) :
          tasks[i].st \in {"scheduled", "inflight"} =>
              /\ ScenarioOf(pc) \in 1..4 \/ pc = "liveness"
              /\ tasks[i].endpoint =
                     (IF pc \in {"load", "inbox", "rate"}
                      THEN "/federation/inbox"
                      ELSE IF pc = "retry" THEN "/federation/send"
                      ELSE "/federation/health")

C20_NextAfterAllCompleted ==
    pc' # pc =>
        /\ GatherDone(tasks)
        /\ ScenarioOf(pc') # ScenarioOf(pc) /\ ScenarioOf(pc') # 0 =>
              ScenarioOf(pc') = ScenarioOf(pc) + 1

C20_ScenariosInOrder ==
    /\ []C20_OneScenarioInFlight
    /\ [][C20_NextAfterAllCompleted]_vars

C20_Witness ==
    /\ pc = "retry"
    /\ printed = << "health", "inbox", "rate" >>
    /\ \E i \in 1..Len(tasks) : tasks[i].st = "inflight"

====
